---- MODULE Spec2Model ----
(***************************************************************************)
(* Ticker synchronization pipeline of finnews: the repository upsert       *)
(* (apps/api/ticker_repository.py) and the sync orchestrator               *)
(* (apps/api/services/ticker_sync_service.py).                             *)
(*                                                                         *)
(* Python values.  A str is a sequence of one-character strings, so that   *)
(* upper(), strip() and replace() are computed character by character.     *)
(* None is the one-element sequence <<"None">> and a JSON object or array  *)
(* met where a scalar is expected is <<"{}">>; neither is a sequence of    *)
(* characters, so neither equals any str.  A parsed number n is the pair   *)
(* <<"num", n>>.  A SQL NULL id is 0.                                      *)
(***************************************************************************)
EXTENDS Integers, Sequences, FiniteSets, TLC

None == <<"None">>
Obj == <<"{}">>
NullId == 0
Num(n) == <<"num", n>>

\* ------------------------------------------------------------------ bounds
MaxOps == 3
MaxCalls == 2
MaxRecords == 2
MaxSyncCalls == 1
MaxLen == 3

\* ------------------------------------------------------------ str methods
LowerCase == <<"a", "d", "e", "l", "m", "n", "q", "s", "x", "y">>
UpperCase == <<"A", "D", "E", "L", "M", "N", "Q", "S", "X", "Y">>

IsStr(v) == v # None /\ v # Obj /\ (v = <<>> \/ Head(v) \notin {"num", "float", "raise"})

UpperChar(c) ==
    IF \E i \in 1..Len(LowerCase) : LowerCase[i] = c
    THEN UpperCase[CHOOSE i \in 1..Len(LowerCase) : LowerCase[i] = c]
    ELSE c

\* str.upper()
Upper(s) == [i \in 1..Len(s) |-> UpperChar(s[i])]

\* bool(value) for None, a str or a non-empty JSON object
Truthy(v) == v # None /\ v # <<>>

RECURSIVE LStrip(_)
LStrip(s) == IF s # <<>> /\ Head(s) = " " THEN LStrip(Tail(s)) ELSE s

RECURSIVE RStrip(_)
RStrip(s) ==
    IF s # <<>> /\ s[Len(s)] = " " THEN RStrip(SubSeq(s, 1, Len(s) - 1)) ELSE s

\* str.strip()
Strip(s) == RStrip(LStrip(s))

\* str.replace(c, "")
RECURSIVE Remove(_, _)
Remove(s, c) ==
    IF s = <<>> THEN <<>>
    ELSE IF Head(s) = c THEN Remove(Tail(s), c)
    ELSE <<Head(s)>> \o Remove(Tail(s), c)

\* ------------------------------------------------------------ field parsers
Digits == <<"0", "1", "2", "3", "4", "5", "6", "7", "8", "9">>

IsDigit(c) == \E i \in 1..10 : Digits[i] = c

DigitVal(c) == (CHOOSE i \in 1..10 : Digits[i] = c) - 1

RECURSIVE NatVal(_)
NatVal(s) == IF s = <<>> THEN 0 ELSE 10 * NatVal(SubSeq(s, 1, Len(s) - 1)) + DigitVal(s[Len(s)])

AllDigits(s) == \A i \in 1..Len(s) : IsDigit(s[i])

\* A Python float that a decimal literal denotes: n / 10^k, with no trailing
\* zero in the fraction (1.50 and 1.5 are one float, and so are -0.0 and 0.0
\* under ==).
Float(n, k) == <<"float", n, k>>

RECURSIVE Normalize(_, _)
Normalize(n, k) == IF k > 0 /\ n % 10 = 0 THEN Normalize(n \div 10, k - 1) ELSE Float(n, k)

RECURSIVE Pow10(_)
Pow10(k) == IF k = 0 THEN 1 ELSE 10 * Pow10(k - 1)

\* An exception on its way out of an expression.
Raised(kind) == <<"raise", kind>>

IsRaised(v) == v # <<>> /\ Head(v) = "raise"

\* The sign of a numeric literal and what follows it.
SignOf(s) == IF s # <<>> /\ Head(s) = "-" THEN 0 - 1 ELSE 1
Unsigned(s) == IF s # <<>> /\ Head(s) \in {"-", "+"} THEN Tail(s) ELSE s

\* int(s) for a str: blanks around, an optional sign, one or more digits; else
\* ValueError.
IntLiteral(t) ==
    IF Unsigned(t) # <<>> /\ AllDigits(Unsigned(t)) THEN Num(SignOf(t) * NatVal(Unsigned(t)))
    ELSE Raised("ValueError")

ParseIntStr(s) == CHOOSE n \in {IntLiteral(t) : t \in {Strip(s)}} : TRUE

\* float(s) for a str: blanks around, an optional sign, digits with at most
\* one point and at least one digit; else ValueError.  (Exponents, inf, nan and
\* underscores need characters the inputs here do not have.)
PointAt(u) ==
    IF \E i \in 1..Len(u) : u[i] = "." THEN CHOOSE i \in 1..Len(u) : u[i] = "."
    ELSE Len(u) + 1

Whole(u) == SubSeq(u, 1, PointAt(u) - 1)
Frac(u) == SubSeq(u, PointAt(u) + 1, Len(u))

FloatLiteral(sign, u) ==
    IF Cardinality({i \in 1..Len(u) : u[i] = "."}) > 1
       \/ ~AllDigits(Whole(u)) \/ ~AllDigits(Frac(u))
       \/ Len(Whole(u)) + Len(Frac(u)) = 0
    THEN Raised("ValueError")
    ELSE Normalize(sign * (NatVal(Whole(u)) * Pow10(Len(Frac(u))) + NatVal(Frac(u))),
                   Len(Frac(u)))

ParseFloatStr(s) ==
    CHOOSE f \in {FloatLiteral(SignOf(t), Unsigned(t)) : t \in {Strip(s)}} : TRUE

\* value.replace(c, ""): AttributeError when value is no str.
Replace(value, c) ==
    IF IsRaised(value) THEN value
    ELSE IF IsStr(value) THEN Remove(value, c)
    ELSE Raised("AttributeError")

\* str(value)
StrOf(value) == IF IsStr(value) THEN value ELSE <<"{", "}">>

\* float(...) and int(...) of what the replace calls gave.
FloatOf(v) == IF IsRaised(v) THEN v ELSE ParseFloatStr(v)
IntOf(v) == IF IsRaised(v) THEN v ELSE ParseIntStr(v)

\* except (ValueError, AttributeError): return None
ExceptNone(v) ==
    IF IsRaised(v) /\ v[2] \in {"ValueError", "AttributeError"} THEN None ELSE v

\* _parse_price
ParsePrice(value) ==
    IF ~Truthy(value) THEN None
    ELSE CHOOSE f \in {ExceptNone(v) : v \in {FloatOf(b) : b \in
             {Replace(a, ",") : a \in {Replace(value, "$")}}}} : TRUE

\* A _parse_decimal that is _parse_price under another name.
ParseDecimal_AsPrice(value) ==
    IF ~Truthy(value) THEN None
    ELSE CHOOSE f \in {ExceptNone(v) : v \in {FloatOf(b) : b \in
             {Replace(a, ",") : a \in {Replace(StrOf(value), "$")}}}} : TRUE

\* _parse_decimal
ParseDecimal(value) ==
    IF ~Truthy(value) THEN None
    ELSE CHOOSE f \in {ExceptNone(v) : v \in {FloatOf(b) : b \in
             {Replace(StrOf(value), ",")}}} : TRUE

\* A _parse_percentage that divides by 100.
ParsePercentage_Fraction(value) ==
    IF ~Truthy(value) THEN None
    ELSE CHOOSE f \in {IF v = None THEN None ELSE Normalize(v[2], v[3] + 2) : v \in
             {ExceptNone(x) : x \in {FloatOf(b) : b \in {Replace(value, "%")}}}} : TRUE

\* _parse_percentage
ParsePercentage(value) ==
    IF ~Truthy(value) THEN None
    ELSE CHOOSE f \in {ExceptNone(v) : v \in {FloatOf(b) : b \in
             {Replace(value, "%")}}} : TRUE

\* _parse_int
ParseInt(value) ==
    IF ~Truthy(value) THEN None
    ELSE CHOOSE n \in {ExceptNone(v) : v \in {IntOf(b) : b \in
             {Replace(StrOf(value), ",")}}} : TRUE

\* ------------------------------------------------------------------ storage
NASDAQ == <<"N", "A", "S", "D", "A", "Q">>
NYSE == <<"N", "Y", "S", "E">>
AMEX == <<"A", "M", "E", "X">>

\* The pre-seeded exchanges table.
ExchangesTable ==
    { [id |-> 1, code |-> NASDAQ], [id |-> 2, code |-> NYSE], [id |-> 3, code |-> AMEX] }

\* The committed rows: sectors, industries and tickers are sets of rows, the
\* price table is the sequence of its rows in insertion order.
EmptyDb == [sectors |-> {}, industries |-> {}, tickers |-> {}, prices |-> <<>>]

\* The id a table gives its next row.
NextId(rows) == Cardinality(rows) + 1

\* The NOT NULL constraint on tickers.symbol.
SymbolNotNullViolated(symbol) == symbol = None

\* psycopg2 cannot pass a JSON object as the value of a text parameter.
CannotAdapt(v) == v = Obj

\* The parameters of the ticker upsert that come from the record.
UpsertParams(ticker_data) ==
    {ticker_data.symbol, ticker_data.name, ticker_data.country, ticker_data.ipoyear,
     ticker_data.url}

\* A fault is the statement the storage fails, and whether the failure also
\* loses the connection (a lost connection makes rollback() raise as well).
NoFault == [at |-> "none", lost |-> FALSE]

FaultPoints ==
    { "getconn", "sector_select", "sector_insert", "industry_select", "industry_insert",
      "exchange_select", "ticker_upsert", "price_insert", "commit" }

\* Every statement may fail with the connection kept; the loss of the connection
\* is taken at the ticker and at the price statement.
Faults ==
    {NoFault} \cup [at : FaultPoints, lost : {FALSE}]
              \cup [at : {"ticker_upsert", "price_insert"}, lost : {TRUE}]

\* A call of insert_ticker in progress: the rows its transaction sees, whether
\* the server has aborted the transaction, whether the connection is lost,
\* whether a Python exception is propagating to the except arm (the statements
\* after the one that raised are then skipped), and the ids resolved so far.
Begin(db) ==
    [db |-> db, aborted |-> FALSE, lost |-> FALSE, exc |-> FALSE,
     sector_id |-> NullId, industry_id |-> NullId, exchange_id |-> NullId,
     ticker_id |-> NullId]

\* cursor.execute raises.
Raise(tx, fault) == [tx EXCEPT !.aborted = TRUE, !.lost = fault.lost, !.exc = TRUE]

\* A Python expression raises before any statement is sent.
RaisePython(tx) == [tx EXCEPT !.exc = TRUE]

\* A resolution that never looks the name up: every call creates a row.
GetOrCreateSector_AlwaysInsert(tx, sector_name, fault) ==
    IF tx.exc THEN tx
    ELSE IF ~Truthy(sector_name) THEN tx
    ELSE IF ~IsStr(sector_name) THEN RaisePython(tx)
    ELSE IF Strip(sector_name) = <<>> THEN tx
    ELSE [tx EXCEPT !.db.sectors =
                        @ \cup {[id |-> NextId(tx.db.sectors), name |-> sector_name]},
                    !.sector_id = NextId(tx.db.sectors)]

\* _get_or_create_sector
GetOrCreateSector(tx, sector_name, fault) ==
    IF tx.exc THEN tx
    ELSE IF ~Truthy(sector_name) THEN tx
    ELSE IF ~IsStr(sector_name) THEN RaisePython(tx)
    ELSE IF Strip(sector_name) = <<>> THEN tx
    ELSE IF fault.at = "sector_select" THEN Raise(tx, fault)
    ELSE IF \E r \in tx.db.sectors : r.name = sector_name
    THEN [tx EXCEPT !.sector_id = (CHOOSE r \in tx.db.sectors : r.name = sector_name).id]
    ELSE IF fault.at = "sector_insert" THEN Raise(tx, fault)
    ELSE [tx EXCEPT !.db.sectors =
                        @ \cup {[id |-> NextId(tx.db.sectors), name |-> sector_name]},
                    !.sector_id = NextId(tx.db.sectors)]

\* _get_or_create_industry
GetOrCreateIndustry(tx, industry_name, fault) ==
    IF tx.exc THEN tx
    ELSE IF ~Truthy(industry_name) THEN tx
    ELSE IF ~IsStr(industry_name) THEN RaisePython(tx)
    ELSE IF Strip(industry_name) = <<>> THEN tx
    ELSE IF fault.at = "industry_select" THEN Raise(tx, fault)
    ELSE IF \E r \in tx.db.industries : r.name = industry_name
    THEN [tx EXCEPT !.industry_id =
                        (CHOOSE r \in tx.db.industries : r.name = industry_name).id]
    ELSE IF fault.at = "industry_insert" THEN Raise(tx, fault)
    ELSE [tx EXCEPT !.db.industries =
                        @ \cup {[id |-> NextId(tx.db.industries), name |-> industry_name,
                                 sector_id |-> tx.sector_id]},
                    !.industry_id = NextId(tx.db.industries)]

\* _get_exchange_id
GetExchangeId(tx, exchange_code, fault) ==
    IF tx.exc THEN tx
    ELSE IF ~Truthy(exchange_code) THEN tx
    ELSE IF fault.at = "exchange_select" THEN Raise(tx, fault)
    ELSE IF \E r \in ExchangesTable : r.code = Upper(exchange_code)
    THEN [tx EXCEPT !.exchange_id =
                        (CHOOSE r \in ExchangesTable : r.code = Upper(exchange_code)).id]
    ELSE tx

\* ticker_data.get("ipoyear") or None
OrNone(v) == IF Truthy(v) THEN v ELSE None

\* The row the upsert statement writes for ticker_data, under the given id.
TickerRow(id, ticker_data, tx) ==
    [id |-> id,
     symbol |-> ticker_data.symbol,
     name |-> ticker_data.name,
     exchange_id |-> tx.exchange_id,
     industry_id |-> tx.industry_id,
     sector_id |-> tx.sector_id,
     country |-> ticker_data.country,
     ipo_year |-> OrNone(ticker_data.ipoyear),
     nasdaq_url |-> ticker_data.url]

\* INSERT INTO tickers ... ON CONFLICT (symbol) DO UPDATE ... RETURNING id
UpsertTicker(tx, ticker_data, fault) ==
    IF tx.exc THEN tx
    ELSE IF fault.at = "ticker_upsert"
            \/ (\E v \in UpsertParams(ticker_data) : CannotAdapt(v))
            \/ SymbolNotNullViolated(ticker_data.symbol)
    THEN Raise(tx, fault)
    ELSE IF \E r \in tx.db.tickers : r.symbol = ticker_data.symbol
    THEN [tx EXCEPT !.db.tickers =
                        {IF r.symbol = ticker_data.symbol
                         THEN TickerRow(r.id, ticker_data, tx) ELSE r : r \in @},
                    !.ticker_id =
                        (CHOOSE r \in tx.db.tickers : r.symbol = ticker_data.symbol).id]
    ELSE [tx EXCEPT !.db.tickers = @ \cup {TickerRow(NextId(tx.db.tickers), ticker_data, tx)},
                    !.ticker_id = NextId(tx.db.tickers)]

\* The row _insert_price_data writes.
PriceRow(ticker_id, ticker_data) ==
    [ticker_id |-> ticker_id,
     last_sale |-> ParsePrice(ticker_data.lastsale),
     net_change |-> ParseDecimal(ticker_data.netchange),
     pct_change |-> ParsePercentage(ticker_data.pctchange),
     volume |-> ParseInt(ticker_data.volume),
     market_cap |-> ParseDecimal(ticker_data.marketCap)]

\* if ticker_data.get("lastsale"): _insert_price_data(...).  A failed INSERT is
\* swallowed there; the server has aborted the transaction all the same.
InsertPriceData(tx, ticker_data, fault) ==
    IF tx.exc \/ ~Truthy(ticker_data.lastsale) THEN tx
    ELSE IF fault.at = "price_insert" THEN [tx EXCEPT !.aborted = TRUE, !.lost = fault.lost]
    ELSE [tx EXCEPT !.db.prices = Append(@, PriceRow(tx.ticker_id, ticker_data))]

\* conn.commit(): raises on a lost connection; the server answers the COMMIT of
\* an aborted transaction by rolling it back, and psycopg2 reports no error.
Commit(tx, db0, fault) ==
    IF tx.exc THEN tx
    ELSE IF tx.lost THEN [tx EXCEPT !.exc = TRUE]
    ELSE IF fault.at = "commit" THEN Raise(tx, fault)
    ELSE IF tx.aborted THEN [tx EXCEPT !.db = db0]
    ELSE tx

\* An except arm that keeps what the transaction wrote so far.
Rollback_KeepsWrites(tx, db0) == tx.db

\* conn.rollback() in the except arm: the rows are those before the call.
Rollback(tx, db0) == db0

\* The end of insert_ticker.  After an exception the except arm rolls back and
\* returns False, unless the connection is lost: rollback() raises then and the
\* error leaves insert_ticker.
Outcome(tx, db0) ==
    [ret |-> IF ~tx.exc THEN "True" ELSE IF tx.lost THEN "raise" ELSE "False",
     db |-> IF tx.exc THEN Rollback(tx, db0) ELSE tx.db,
     failed |-> tx.aborted \/ tx.lost,
     sector_id |-> tx.sector_id, industry_id |-> tx.industry_id,
     ticker_id |-> tx.ticker_id]

\* The statements of insert_ticker's try block, in order: each statement works
\* on the transaction as the statement before it left it.
TryBlock(db, ticker_data, exchange_code, fault) ==
    CHOOSE done \in
        { Commit(priced, db, fault) : priced \in
        { InsertPriceData(upserted, ticker_data, fault) : upserted \in
        { UpsertTicker(e, ticker_data, fault) : e \in
        { GetExchangeId(i, exchange_code, fault) : i \in
        { GetOrCreateIndustry(s, ticker_data.industry, fault) : s \in
        { GetOrCreateSector(Begin(db), ticker_data.sector, fault) } } } } } } : TRUE

\* insert_ticker: ret is "True", "False" or "raise"; db is the committed rows
\* after the call; failed tells whether a storage operation of the call failed;
\* the ids are those the call resolved.
InsertTicker(db, ticker_data, exchange_code, fault) ==
    IF ticker_data.kind # "object"
    THEN \* .get raises in the try block and again in the handler's print
         [ret |-> "raise", db |-> db, failed |-> FALSE, sector_id |-> NullId,
          industry_id |-> NullId, ticker_id |-> NullId]
    ELSE IF fault.at = "getconn"
    THEN \* conn is None: nothing to roll back
         [ret |-> "False", db |-> db, failed |-> TRUE, sector_id |-> NullId,
          industry_id |-> NullId, ticker_id |-> NullId]
    ELSE CHOOSE out \in
            { Outcome(tx, db) : tx \in {TryBlock(db, ticker_data, exchange_code, fault)} } :
            TRUE

\* get_ticker_by_symbol: the row joined with its exchange, sector and industry,
\* or NotFound for Python's None.
NotFound == [found |-> FALSE]

JoinName(rows, id) ==
    LET m == {r \in rows : r.id = id} IN
    IF m = {} THEN None ELSE (CHOOSE r \in m : TRUE).name

JoinCode(id) ==
    LET m == {r \in ExchangesTable : r.id = id} IN
    IF m = {} THEN None ELSE (CHOOSE r \in m : TRUE).code

\* The joined row stored under exactly this symbol, with no upper-casing.
GetTickerBySymbol_Exact(db, symbol) ==
    LET m == {r \in db.tickers : r.symbol = symbol} IN
    IF m = {} THEN NotFound
    ELSE LET r == CHOOSE r \in m : TRUE IN
         [found |-> TRUE, id |-> r.id, symbol |-> r.symbol, name |-> r.name,
          country |-> r.country, ipo_year |-> r.ipo_year, nasdaq_url |-> r.nasdaq_url,
          exchange_code |-> JoinCode(r.exchange_id),
          sector |-> JoinName(db.sectors, r.sector_id),
          industry |-> JoinName(db.industries, r.industry_id)]

GetTickerBySymbol(db, symbol) ==
    LET m == {r \in db.tickers : r.symbol = Upper(symbol)} IN
    IF m = {} THEN NotFound
    ELSE LET r == CHOOSE r \in m : TRUE IN
         [found |-> TRUE, id |-> r.id, symbol |-> r.symbol, name |-> r.name,
          country |-> r.country, ipo_year |-> r.ipo_year, nasdaq_url |-> r.nasdaq_url,
          exchange_code |-> JoinCode(r.exchange_id),
          sector |-> JoinName(db.sectors, r.sector_id),
          industry |-> JoinName(db.industries, r.industry_id)]

\* get_ticker_count
GetTickerCount(db) == Cardinality(db.tickers)

\* ------------------------------------------------------------- SyncStatus
\* SyncStatus.__init__; a timestamp is the reading of the clock, 0 for None.
NewStatus ==
    [is_running |-> FALSE, started_at |-> 0, completed_at |-> 0,
     total_processed |-> 0, total_success |-> 0, total_errors |-> 0,
     current_exchange |-> None, error_message |-> None]

\* A start that keeps the counters of the run before.
StatusStart_KeepsCounters(st, now) ==
    [st EXCEPT !.is_running = TRUE, !.started_at = now, !.completed_at = 0,
               !.current_exchange = None, !.error_message = None]

\* SyncStatus.start
StatusStart(st, now) ==
    [is_running |-> TRUE, started_at |-> now, completed_at |-> 0,
     total_processed |-> 0, total_success |-> 0, total_errors |-> 0,
     current_exchange |-> None, error_message |-> None]

\* A complete that records the time and leaves the run running.
StatusComplete_StillRunning(st, now) ==
    [st EXCEPT !.completed_at = now, !.current_exchange = None]

\* SyncStatus.complete
StatusComplete(st, now) ==
    [st EXCEPT !.is_running = FALSE, !.completed_at = now, !.current_exchange = None]

\* SyncStatus.update_progress
\* An update_progress that leaves the error counter alone.
StatusUpdateProgress_DropsErrors(st, exchange, processed, success, errors) ==
    [st EXCEPT !.current_exchange = exchange,
               !.total_processed = @ + processed,
               !.total_success = @ + success]

StatusUpdateProgress(st, exchange, processed, success, errors) ==
    [st EXCEPT !.current_exchange = exchange,
               !.total_processed = @ + processed,
               !.total_success = @ + success,
               !.total_errors = @ + errors]

\* A set_error that records the error and leaves the run running.
StatusSetError_StillRunning(st, error, now) ==
    [st EXCEPT !.error_message = error, !.completed_at = now]

\* SyncStatus.set_error
StatusSetError(st, error, now) ==
    [st EXCEPT !.is_running = FALSE, !.error_message = error, !.completed_at = now]

\* datetime.isoformat() if the timestamp is set, else None
IsoFormat(t) == IF t = 0 THEN None ELSE <<"iso", t>>

\* SyncStatus.to_dict
ToDict(st) ==
    [is_running |-> st.is_running,
     started_at |-> IsoFormat(st.started_at),
     completed_at |-> IsoFormat(st.completed_at),
     current_exchange |-> st.current_exchange,
     total_processed |-> st.total_processed,
     total_success |-> st.total_success,
     total_errors |-> st.total_errors,
     error_message |-> st.error_message]

\* Where get_ticker_count may raise: taking the connection, or the SELECT.
CountFaults == {"none", "getconn", "count_select"}

\* get_ticker_count as get_sync_status calls it: the count, or an exception
\* (the method has a finally arm and no except arm).
TryGetTickerCount(db, fault) ==
    IF fault = "none" THEN [raised |-> FALSE, count |-> Num(GetTickerCount(db))]
    ELSE [raised |-> TRUE, count |-> None]

\* A get_sync_status without the try around the count: the error of the read
\* leaves the call.
GetSyncStatus_Propagates(st, db, fault) ==
    LET c == TryGetTickerCount(db, fault) IN
    IF c.raised THEN [raised |-> TRUE] ELSE [raised |-> FALSE, dict |-> ToDict(st), total_tickers_in_db |-> c.count]

\* TickerSyncService.get_sync_status: the status dict and the ticker count,
\* None when reading the count raised.
GetSyncStatus(st, db, fault) ==
    LET c == TryGetTickerCount(db, fault) IN
    [raised |-> FALSE, dict |-> ToDict(st),
     total_tickers_in_db |-> IF c.raised THEN None ELSE c.count]

\* ------------------------------------------------------ TickerSyncService
\* A registry that lists the exchanges the other way round.
ExchangeOrder_Reversed == <<AMEX, NYSE, NASDAQ>>

\* TickerSyncService.EXCHANGES: a dict keeps the order its keys were written in.
ExchangeOrder == <<NASDAQ, NYSE, AMEX>>

\* A membership test that takes any code for a known exchange.
InExchanges_Any(exchange_code) == TRUE

\* exchange_code in self.EXCHANGES
InExchanges(exchange_code) == \E i \in 1..Len(ExchangeOrder) : ExchangeOrder[i] = exchange_code

\* A guard that does not look at the running flag.
AlreadyRunning_Never(st) == FALSE

\* if self.status.is_running: raise RuntimeError("Sync already in progress")
AlreadyRunning(st) == st.is_running

\* f"Sync failed: {e}" around sync_exchange's f"Failed to sync {exchange_code}: {e}"
ErrorMessage(exchange_code) == <<"Sync failed: Failed to sync ">> \o exchange_code

\* What the remote dataset fetch gives: a JSON array, a JSON value that is no
\* array, or an error of the request.
ListPayload(items) == [kind |-> "list", items |-> items]
NotAListPayload == [kind |-> "dict", items |-> <<>>]
FetchError == [kind |-> "error", items |-> <<>>]

\* The sequences over S of length at most n.
SeqsUpTo(S, n) == UNION { [1..k -> S] : k \in 0..n }

\* -------------------------------------------------------------------- state
VARIABLES
    db,         \* the committed rows of the storage
    status,     \* TickerSyncService.status, the SyncStatus object
    clock,      \* the number of datetime.now() readings so far
    callers,    \* the threads that call the service
    pc,         \* where each caller is in sync_all_exchanges / sync_specific_exchange
    loc,        \* each caller's local variables
    ncalls,     \* the number of service calls made so far
    ops,        \* the number of repository calls made so far
    call,       \* the latest repository call: its arguments and what it returned
    lastGood,   \* per symbol, the arguments of the latest insert_ticker that returned True
    pool,       \* db_config.pool: the number of its connections that are checked out
    mode        \* the environment: which failures the storage may show and what
                \* a fetch of the remote dataset may give

vars == <<db, status, clock, callers, pc, loc, ncalls, ops, call, lastGood, pool, mode>>

svcVars == <<status, clock, callers, pc, loc, ncalls, mode>>
repoVars == <<ops, call, lastGood, pool>>

NoCall == [op |-> "none"]

\* ------------------------------------------------- the repository on its own
Record(symbol, name, sector, industry, country, ipoyear, url, lastsale) ==
    [kind |-> "object", symbol |-> symbol, name |-> name, sector |-> sector,
     industry |-> industry, country |-> country, ipoyear |-> ipoyear, url |-> url,
     lastsale |-> lastsale, netchange |-> <<"1">>, pctchange |-> <<"1", "%">>,
     volume |-> <<"1", ",", "0">>, marketCap |-> <<"$", "1">>]

NotAnObject == [kind |-> "other"]

\* Records of a dataset.
GoodA == Record(<<"A">>, <<"x">>, <<"S">>, <<"I">>, <<"U">>, <<"2">>, <<"u">>, <<"$", "1">>)
GoodB == Record(<<"B">>, <<"y">>, <<>>, <<>>, None, <<>>, None, <<>>)
MissingSymbol == Record(None, <<"x">>, <<"T">>, <<"I">>, <<"U">>, <<"2">>, <<"u">>, <<"$", "1">>)
MalformedSymbol == Record(Obj, <<"x">>, <<"S">>, <<"I">>, <<"U">>, <<"2">>, <<"u">>, <<>>)

RepoRecords ==
    { Record(<<"A">>, <<"x">>, <<"S">>, <<"I">>, <<"U">>, <<"2">>, <<"u">>, <<"$", "1">>),
      Record(<<"A">>, <<"y">>, <<>>, <<" ">>, None, <<>>, None, <<>>),
      Record(<<"a">>, <<"x">>, <<"S">>, <<"J">>, <<"U">>, <<"2">>, <<"u">>, None),
      Record(None, <<"x">>, <<"T">>, <<"I">>, <<"U">>, <<"2">>, <<"u">>, <<"$", "1">>),
      Record(Obj, <<"x">>, <<"S">>, <<"I">>, <<"U">>, <<"2">>, <<"u">>, <<>>),
      NotAnObject }

RepoCodes == { NASDAQ, <<"n", "y", "s", "e">> }

RepoSymbols == { <<"A">>, <<"a">> }

\* A record with a valid symbol and one other field malformed: a JSON object,
\* or a str that is no number and no text of the field's kind.
OtherFields ==
    {"name", "sector", "industry", "country", "ipoyear", "url", "lastsale", "netchange",
     "pctchange", "volume", "marketCap"}

FieldRecords ==
    {GoodA} \cup {[GoodA EXCEPT ![f] = v] : f \in OtherFields, v \in {Obj, <<"x", "$">>}}

\* The records insert_ticker is given under each environment.
RecordsOf(m) == IF m = "fields" THEN FieldRecords ELSE RepoRecords

\* The failures the storage may show under each environment.
FaultsOf(m) == IF m \in {"repo", "sync"} THEN Faults ELSE {NoFault}

InitRepoWith(m) ==
    /\ mode = m
    /\ db = EmptyDb
    /\ status = NewStatus
    /\ clock = 0
    /\ callers = {}
    /\ pc = <<>>
    /\ loc = <<>>
    /\ ncalls = 0
    /\ ops = 0
    /\ call = NoCall
    /\ lastGood = [s \in RepoSymbols |-> NoCall]
    /\ pool = 0

\* One call of insert_ticker, with the storage failing at most one statement.
InsertTickerCall ==
    /\ ops < MaxOps
    /\ \E ticker_data \in RecordsOf(mode), exchange_code \in RepoCodes, fault \in FaultsOf(mode) :
        LET r == InsertTicker(db, ticker_data, exchange_code, fault) IN
        /\ db' = r.db
        /\ call' = [op |-> "insert_ticker", ticker_data |-> ticker_data,
                    exchange_code |-> exchange_code, ret |-> r.ret, before |-> db,
                    sector_id |-> r.sector_id, industry_id |-> r.industry_id,
                    ticker_id |-> r.ticker_id]
        /\ lastGood' =
              IF r.ret = "True"
              THEN [lastGood EXCEPT ![ticker_data.symbol] =
                       [op |-> "insert_ticker", ticker_data |-> ticker_data,
                        exchange_code |-> exchange_code]]
              ELSE lastGood
    /\ ops' = ops + 1
    /\ UNCHANGED svcVars
    /\ UNCHANGED pool

\* One call of get_ticker_by_symbol; the call it follows is kept with it.
GetTickerBySymbolCall ==
    /\ ops < MaxOps
    /\ call.op # "get_ticker_by_symbol"
    /\ \E symbol \in RepoSymbols :
        call' = [op |-> "get_ticker_by_symbol", symbol |-> symbol,
                 result |-> GetTickerBySymbol(db, symbol), after |-> call]
    /\ ops' = ops + 1
    /\ UNCHANGED <<db, lastGood>>
    /\ UNCHANGED svcVars
    /\ UNCHANGED pool

NextRepo == InsertTickerCall \/ GetTickerBySymbolCall

\* The repository called sequentially; any statement may fail.
InitRepo == InitRepoWith("repo")
SpecRepo == InitRepo /\ [][NextRepo]_vars

\* The repository called sequentially on a storage that never fails.
InitRepoOk == InitRepoWith("repo_ok")
SpecRepoOk == InitRepoOk /\ [][NextRepo]_vars

\* The repository called sequentially on a storage that never fails, with
\* records whose symbol is valid and one of whose other fields is malformed.
InitFields == InitRepoWith("fields")
SpecFields == InitFields /\ [][NextRepo]_vars

\* ---------------------------------------------------- the service's callers
\* A caller's local variables.  n numbers the call; result is "running" until
\* the call returns ("success") or raises ("Conflict", "InvalidArgument",
\* "Failed").  todo holds the exchanges still to sync, the current one first.
\* Kept for the properties: cause (what made the run fail), last (the latest
\* insert_ticker of the run: whether a storage operation failed in it and how
\* sync_exchange counted it), before (the symbols in storage when the current
\* dataset was fetched), touched (the exchanges insert_ticker was called for)
\* and committed (the symbols whose rows the run committed).
NoInsert == [failed |-> FALSE, counted |-> "none"]

Locals(n, op, arg, result, todo) ==
    [n |-> n, op |-> op, arg |-> arg, result |-> result, todo |-> todo,
     exchange |-> None, ticker_data |-> <<>>, i |-> 0, success |-> 0, errors |-> 0,
     results |-> <<>>, error |-> None, cause |-> "none", last |-> NoInsert,
     before |-> {}, touched |-> {}, committed |-> {}]

CodeInputs == { NASDAQ, <<"n", "y", "s", "e">>, <<"L", "S", "E">>, <<"l", "s", "e">> }


Symbols(rows) == {r.symbol : r \in rows}

Payloads(records, n) ==
    {ListPayload(items) : items \in SeqsUpTo(records, n)} \cup {NotAListPayload, FetchError}

RacePayloads == {ListPayload(<<GoodB>>), FetchError}
SyncPayloads == Payloads({GoodA, MissingSymbol, NotAnObject}, MaxRecords)
SyncOkPayloads == Payloads({GoodA, GoodB, MissingSymbol, MalformedSymbol}, MaxRecords)
SeqPayloads ==
    {ListPayload(<<GoodB>>), ListPayload(<<GoodA, MissingSymbol>>), ListPayload(<<>>), FetchError}

\* What a fetch of the remote dataset may give under each environment.
RemoteOf(m) ==
    IF m = "race" THEN RacePayloads
    ELSE IF m = "seq" THEN SeqPayloads
    ELSE IF m = "sync" THEN SyncPayloads ELSE SyncOkPayloads

\* The calls that may be made under each environment.
CallBudget(m) == IF m \in {"race", "seq"} THEN MaxCalls ELSE MaxSyncCalls

InitService(cs, m) ==
    /\ callers = cs
    /\ mode = m
    /\ db = EmptyDb
    /\ status = NewStatus
    /\ clock = 0
    /\ pc = [t \in cs |-> "idle"]
    /\ loc = [t \in cs |-> Locals(0, "none", None, "none", <<>>)]
    /\ ncalls = 0
    /\ ops = 0
    /\ call = NoCall
    /\ lastGood = [s \in RepoSymbols |-> NoCall]
    /\ pool = 0

\* sync_all_exchanges up to its check of the running flag (lines 135-136).
CallSyncAll(t) ==
    /\ pc[t] = "idle"
    /\ ncalls < CallBudget(mode)
    /\ ncalls' = ncalls + 1
    /\ IF AlreadyRunning(status)
       THEN /\ loc' = [loc EXCEPT ![t] = Locals(ncalls + 1, "all", None, "Conflict", <<>>)]
            /\ pc' = pc
       ELSE /\ loc' = [loc EXCEPT ![t] =
                          Locals(ncalls + 1, "all", None, "running", ExchangeOrder)]
            /\ pc' = [pc EXCEPT ![t] = "start"]
    /\ UNCHANGED <<db, status, clock, callers, mode>>
    /\ UNCHANGED repoVars

\* sync_specific_exchange up to its check of the running flag (lines 183-189).
CallSyncOne(t) ==
    /\ pc[t] = "idle"
    /\ ncalls < CallBudget(mode)
    /\ ncalls' = ncalls + 1
    /\ \E code \in CodeInputs :
          IF ~InExchanges(Upper(code))
          THEN /\ loc' = [loc EXCEPT ![t] =
                             Locals(ncalls + 1, "one", code, "InvalidArgument", <<>>)]
               /\ pc' = pc
          ELSE IF AlreadyRunning(status)
          THEN /\ loc' = [loc EXCEPT ![t] =
                             Locals(ncalls + 1, "one", code, "Conflict", <<>>)]
               /\ pc' = pc
          ELSE /\ loc' = [loc EXCEPT ![t] =
                             Locals(ncalls + 1, "one", code, "running", <<Upper(code)>>)]
               /\ pc' = [pc EXCEPT ![t] = "start"]
    /\ UNCHANGED <<db, status, clock, callers, mode>>
    /\ UNCHANGED repoVars

\* self.status.start() (lines 138 and 191).
Start(t) ==
    /\ pc[t] = "start"
    /\ status' = StatusStart(status, clock + 1)
    /\ clock' = clock + 1
    /\ pc' = [pc EXCEPT ![t] = "fetch"]
    /\ UNCHANGED <<db, loc, ncalls, callers, mode>>
    /\ UNCHANGED repoVars

\* sync_exchange up to its loop: the fetch and the check that it gave a list
\* (lines 97-110).  A failed fetch and a payload that is no list both raise.
Fetch(t) ==
    /\ pc[t] = "fetch"
    /\ \E payload \in RemoteOf(mode) :
          IF payload.kind = "list"
          THEN /\ loc' = [loc EXCEPT ![t].exchange = Head(loc[t].todo),
                                     ![t].ticker_data = payload.items,
                                     ![t].i = 1, ![t].success = 0, ![t].errors = 0,
                                     ![t].before = Symbols(db.tickers)]
               /\ pc' = [pc EXCEPT ![t] = IF payload.items = <<>> THEN "progress" ELSE "insert"]
          ELSE /\ loc' = [loc EXCEPT ![t].exchange = Head(loc[t].todo),
                                     ![t].ticker_data = <<>>,
                                     ![t].error = ErrorMessage(Head(loc[t].todo)),
                                     ![t].cause = "fetch"]
               /\ pc' = [pc EXCEPT ![t] = "fail"]
    /\ UNCHANGED <<db, status, clock, ncalls, callers, mode>>
    /\ UNCHANGED repoVars

\* A sync_exchange that counts every returning insert_ticker as a success.
Counted_AlwaysSuccess(ret) == IF ret = "raise" THEN "abort" ELSE "success"

\* How sync_exchange counts what insert_ticker did (lines 114-117, 125).
Counted(ret) == IF ret = "True" THEN "success" ELSE IF ret = "False" THEN "error" ELSE "abort"

\* One turn of sync_exchange's loop (lines 113-117): insert_ticker on the next
\* record.  An error that leaves insert_ticker ends sync_exchange (line 125).
Insert(t) ==
    /\ pc[t] = "insert"
    /\ \E fault \in FaultsOf(mode) :
          LET l == loc[t] IN
          \E r \in {InsertTicker(db, l.ticker_data[l.i], l.exchange, fault)} :
          /\ db' = r.db
          /\ loc' = [loc EXCEPT
                ![t].i = @ + 1,
                ![t].success = IF Counted(r.ret) = "success" THEN @ + 1 ELSE @,
                ![t].errors = IF Counted(r.ret) = "error" THEN @ + 1 ELSE @,
                ![t].error = IF r.ret = "raise" THEN ErrorMessage(l.exchange) ELSE @,
                ![t].cause = IF r.ret = "raise" THEN "insert" ELSE @,
                ![t].last = [failed |-> r.failed, counted |-> Counted(r.ret)],
                ![t].touched = @ \cup {l.exchange},
                ![t].committed =
                    IF r.ret = "True" /\ r.db # db THEN @ \cup {l.ticker_data[l.i].symbol}
                    ELSE @]
          /\ pc' = [pc EXCEPT ![t] =
                IF r.ret = "raise" THEN "fail"
                ELSE IF l.i = Len(l.ticker_data) THEN "progress" ELSE "insert"]
    /\ UNCHANGED <<status, clock, ncalls, callers, mode>>
    /\ UNCHANGED repoVars

\* What sync_exchange returns (lines 108, 119-123).
SyncExchangeResult(l) ==
    [exchange |-> l.exchange, total |-> Len(l.ticker_data), success |-> l.success,
     errors |-> l.errors]

\* The caller takes sync_exchange's result: results[exchange_code] = ... and
\* status.update_progress(...) (lines 144-151, 197-202).
UpdateProgress(t) ==
    /\ pc[t] = "progress"
    /\ LET r == SyncExchangeResult(loc[t]) IN
       /\ status' = StatusUpdateProgress(status, r.exchange, r.total, r.success, r.errors)
       /\ loc' = [loc EXCEPT ![t].results = Append(@, r), ![t].todo = Tail(@)]
       /\ pc' = [pc EXCEPT ![t] = IF Tail(loc[t].todo) = <<>> THEN "complete" ELSE "fetch"]
    /\ UNCHANGED <<db, clock, ncalls, callers, mode>>
    /\ UNCHANGED repoVars

\* self.status.complete() and the return (lines 153-166, 203-214).
Complete(t) ==
    /\ pc[t] = "complete"
    /\ status' = StatusComplete(status, clock + 1)
    /\ clock' = clock + 1
    /\ loc' = [loc EXCEPT ![t].result = "success"]
    /\ pc' = [pc EXCEPT ![t] = "idle"]
    /\ UNCHANGED <<db, ncalls, callers, mode>>
    /\ UNCHANGED repoVars

\* The except arm of the caller: set_error and raise (lines 168-171, 216-219).
SetError(t) ==
    /\ pc[t] = "fail"
    /\ status' = StatusSetError(status, loc[t].error, clock + 1)
    /\ clock' = clock + 1
    /\ loc' = [loc EXCEPT ![t].result = "Failed"]
    /\ pc' = [pc EXCEPT ![t] = "idle"]
    /\ UNCHANGED <<db, ncalls, callers, mode>>
    /\ UNCHANGED repoVars

Next ==
    \/ \E t \in callers : CallSyncAll(t)
    \/ \E t \in callers : CallSyncOne(t)
    \/ \E t \in callers : Start(t)
    \/ \E t \in callers : Fetch(t)
    \/ \E t \in callers : Insert(t)
    \/ \E t \in callers : UpdateProgress(t)
    \/ \E t \in callers : Complete(t)
    \/ \E t \in callers : SetError(t)

\* Two threads call the one service instance; the storage does not fail.
Init == InitService({1, 2}, "race")
Spec == Init /\ [][Next]_vars

\* One caller at a time; any statement of the storage may fail.
InitSync == InitService({1}, "sync")
SpecSync == InitSync /\ [][Next]_vars

\* A step of caller t's run body: the calling thread goes on executing, the
\* fetch ends by its answer, its error or its timeout, and a statement of the
\* storage ends by its result or its error.
RunStep(t) ==
    Start(t) \/ Fetch(t) \/ Insert(t) \/ UpdateProgress(t) \/ Complete(t) \/ SetError(t)

\* SpecSync, with every caller's run body going on as long as it can.
FairSpecSync == SpecSync /\ \A t \in {1} : WF_vars(RunStep(t))

\* One caller at a time on a storage that never fails.
InitSyncOk == InitService({1}, "sync_ok")
SpecSyncOk == InitSyncOk /\ [][Next]_vars

\* A call of get_sync_status, at any moment; the status object, the callers'
\* positions and locals and the number of calls at that moment are kept with
\* what it returned.
GetSyncStatusCall ==
    /\ \E fault \in CountFaults :
          call' = [op |-> "get_sync_status", fault |-> fault,
                   result |-> GetSyncStatus(status, db, fault),
                   status |-> status, pcs |-> pc, runs |-> loc, ncalls |-> ncalls,
                   tickers |-> Cardinality(db.tickers)]
    /\ UNCHANGED <<db, ops, lastGood>>
    /\ UNCHANGED svcVars
    /\ UNCHANGED pool

NextStatus ==
    \/ \E t \in callers : CallSyncAll(t)
    \/ \E t \in callers : CallSyncOne(t)
    \/ \E t \in callers : Start(t)
    \/ \E t \in callers : Fetch(t)
    \/ \E t \in callers : Insert(t)
    \/ \E t \in callers : UpdateProgress(t)
    \/ \E t \in callers : Complete(t)
    \/ \E t \in callers : SetError(t)
    \/ GetSyncStatusCall

\* One caller makes run after run and the status is read at any moment; the
\* storage fails only under the read of the ticker count.
InitStatus == InitService({1}, "seq")
SpecStatus == InitStatus /\ [][NextStatus]_vars

\* ------------------------------------- two concurrent insert_ticker calls
\* Two threads run insert_ticker at the same time, each in a transaction of its
\* own on a connection of its own; a step is one statement.  The storage is
\* PostgreSQL at READ COMMITTED: a statement sees the committed rows and the
\* rows its own transaction wrote.
TxRecords ==
    { GoodA,
      Record(<<"B">>, <<"y">>, <<"S">>, <<"I">>, None, <<>>, None, <<>>),
      Record(<<"A">>, <<"x">>, <<"T">>, <<"J">>, <<"U">>, <<"2">>, <<"u">>, <<>>) }

NoWrites == [sectors |-> {}, industries |-> {}, tickers |-> {}, prices |-> <<>>]

\* The locals of an insert_ticker call in progress: its record, the ids it
\* resolved, the rows its transaction wrote and has not committed, what it
\* returned, and whether an INSERT of it failed after its SELECT found no row.
TxLocals(ticker_data, ret) ==
    [ticker_data |-> ticker_data, sector_id |-> NullId, industry_id |-> NullId,
     exchange_id |-> NullId, ticker_id |-> NullId, writes |-> NoWrites, ret |-> ret,
     raced |-> FALSE]

\* The uncommitted rows of the transactions other than t.
OthersSectors(t) == UNION {loc[u].writes.sectors : u \in callers \ {t}}
OthersIndustries(t) == UNION {loc[u].writes.industries : u \in callers \ {t}}
OthersTickers(t) == UNION {loc[u].writes.tickers : u \in callers \ {t}}

\* The id a sequence gives next: ids of rolled back rows are not given again
\* to a row that is still there.
TxNextId(rows) ==
    IF rows = {} THEN 1
    ELSE (CHOOSE m \in {r.id : r \in rows} : \A r \in rows : r.id <= m) + 1

\* A table without the unique index on name.
NameTaken_NoIndex(rows, name) == FALSE

\* The unique index on sectors.name and on industries.name: an INSERT of a
\* name a committed row has fails, and an INSERT of a name another
\* transaction has inserted and not committed waits for that transaction.
NameTaken(rows, name) == \E r \in rows : r.name = name

\* except: conn.rollback(); return False
TxFail(t) ==
    /\ loc' = [loc EXCEPT ![t].writes = NoWrites, ![t].ret = "False", ![t].raced = TRUE]
    /\ pc' = [pc EXCEPT ![t] = "idle"]

\* insert_ticker is entered: the connection is taken (lines 72-75).
TxBegin(t) ==
    /\ pc[t] = "idle"
    /\ ops < MaxOps
    /\ ops' = ops + 1
    /\ \E ticker_data \in TxRecords :
          loc' = [loc EXCEPT ![t] = TxLocals(ticker_data, "running")]
    /\ pc' = [pc EXCEPT ![t] = "sector_select"]
    /\ UNCHANGED <<db, status, clock, callers, ncalls, call, lastGood, mode>>
    /\ UNCHANGED pool

\* _get_or_create_sector up to its SELECT (lines 21-28).
TxSectorSelect(t) ==
    /\ pc[t] = "sector_select"
    /\ LET name == loc[t].ticker_data.sector
           seen == {r \in db.sectors \cup loc[t].writes.sectors : r.name = name}
       IN IF ~Truthy(name) \/ Strip(name) = <<>>
          THEN /\ pc' = [pc EXCEPT ![t] = "industry_select"]
               /\ loc' = loc
          ELSE IF seen # {}
          THEN /\ pc' = [pc EXCEPT ![t] = "industry_select"]
               /\ loc' = [loc EXCEPT ![t].sector_id = (CHOOSE r \in seen : TRUE).id]
          ELSE /\ pc' = [pc EXCEPT ![t] = "sector_insert"]
               /\ loc' = loc
    /\ UNCHANGED <<db, status, clock, callers, ncalls, ops, call, lastGood, mode>>
    /\ UNCHANGED pool

\* The INSERT of _get_or_create_sector (lines 31-32).
TxSectorInsert(t) ==
    /\ pc[t] = "sector_insert"
    /\ LET name == loc[t].ticker_data.sector
           id == TxNextId(db.sectors \cup loc[t].writes.sectors \cup OthersSectors(t))
       IN /\ ~NameTaken(OthersSectors(t), name)
          /\ IF NameTaken(db.sectors, name)
             THEN TxFail(t)
             ELSE /\ loc' = [loc EXCEPT ![t].writes.sectors = @ \cup {[id |-> id, name |-> name]},
                                        ![t].sector_id = id]
                  /\ pc' = [pc EXCEPT ![t] = "industry_select"]
    /\ UNCHANGED <<db, status, clock, callers, ncalls, ops, call, lastGood, mode>>
    /\ UNCHANGED pool

\* _get_or_create_industry up to its SELECT (lines 36-43).
TxIndustrySelect(t) ==
    /\ pc[t] = "industry_select"
    /\ LET name == loc[t].ticker_data.industry
           seen == {r \in db.industries \cup loc[t].writes.industries : r.name = name}
       IN IF ~Truthy(name) \/ Strip(name) = <<>>
          THEN /\ pc' = [pc EXCEPT ![t] = "ticker_upsert"]
               /\ loc' = loc
          ELSE IF seen # {}
          THEN /\ pc' = [pc EXCEPT ![t] = "ticker_upsert"]
               /\ loc' = [loc EXCEPT ![t].industry_id = (CHOOSE r \in seen : TRUE).id]
          ELSE /\ pc' = [pc EXCEPT ![t] = "industry_insert"]
               /\ loc' = loc
    /\ UNCHANGED <<db, status, clock, callers, ncalls, ops, call, lastGood, mode>>
    /\ UNCHANGED pool

\* The INSERT of _get_or_create_industry (lines 46-50).
TxIndustryInsert(t) ==
    /\ pc[t] = "industry_insert"
    /\ LET name == loc[t].ticker_data.industry
           id == TxNextId(db.industries \cup loc[t].writes.industries \cup OthersIndustries(t))
       IN /\ ~NameTaken(OthersIndustries(t), name)
          /\ IF NameTaken(db.industries, name)
             THEN TxFail(t)
             ELSE /\ loc' = [loc EXCEPT
                        ![t].writes.industries =
                            @ \cup {[id |-> id, name |-> name, sector_id |-> loc[t].sector_id]},
                        ![t].industry_id = id]
                  /\ pc' = [pc EXCEPT ![t] = "ticker_upsert"]
    /\ UNCHANGED <<db, status, clock, callers, ncalls, ops, call, lastGood, mode>>
    /\ UNCHANGED pool

\* _get_exchange_id and the upsert of the ticker row (lines 80-107).  The
\* statement waits while another transaction holds an uncommitted row of the
\* symbol; the price row follows in the same step (lines 110-111).
TxUpsert(t) ==
    /\ pc[t] = "ticker_upsert"
    /\ LET l == loc[t]
           symbol == l.ticker_data.symbol
           old == {r \in db.tickers : r.symbol = symbol}
           id == IF old # {} THEN (CHOOSE r \in old : TRUE).id
                 ELSE TxNextId(db.tickers \cup OthersTickers(t))
           ids == [l EXCEPT !.exchange_id = (CHOOSE r \in ExchangesTable : r.code = NASDAQ).id]
       IN /\ ~\E r \in OthersTickers(t) : r.symbol = symbol
          /\ loc' = [loc EXCEPT
                ![t].exchange_id = ids.exchange_id,
                ![t].ticker_id = id,
                ![t].writes.tickers = {TickerRow(id, l.ticker_data, ids)},
                ![t].writes.prices =
                    IF Truthy(l.ticker_data.lastsale)
                    THEN <<PriceRow(id, l.ticker_data)>> ELSE <<>>]
          /\ pc' = [pc EXCEPT ![t] = "commit"]
    /\ UNCHANGED <<db, status, clock, callers, ncalls, ops, call, lastGood, mode>>
    /\ UNCHANGED pool

\* conn.commit(); return True (lines 113-115).
TxCommit(t) ==
    /\ pc[t] = "commit"
    /\ LET w == loc[t].writes IN
       db' = [sectors |-> db.sectors \cup w.sectors,
              industries |-> db.industries \cup w.industries,
              tickers |-> {r \in db.tickers : \A n \in w.tickers : n.symbol # r.symbol}
                          \cup w.tickers,
              prices |-> db.prices \o w.prices]
    /\ loc' = [loc EXCEPT ![t].writes = NoWrites, ![t].ret = "True"]
    /\ pc' = [pc EXCEPT ![t] = "idle"]
    /\ UNCHANGED <<status, clock, callers, ncalls, ops, call, lastGood, mode>>
    /\ UNCHANGED pool

NextTx ==
    \/ \E t \in callers : TxBegin(t)
    \/ \E t \in callers : TxSectorSelect(t)
    \/ \E t \in callers : TxSectorInsert(t)
    \/ \E t \in callers : TxIndustrySelect(t)
    \/ \E t \in callers : TxIndustryInsert(t)
    \/ \E t \in callers : TxUpsert(t)
    \/ \E t \in callers : TxCommit(t)

InitTx ==
    /\ callers = {1, 2}
    /\ mode = "tx"
    /\ db = EmptyDb
    /\ status = NewStatus
    /\ clock = 0
    /\ pc = [t \in {1, 2} |-> "idle"]
    /\ loc = [t \in {1, 2} |-> TxLocals(GoodA, "none")]
    /\ ncalls = 0
    /\ ops = 0
    /\ call = NoCall
    /\ lastGood = [s \in RepoSymbols |-> NoCall]
    /\ pool = 0

SpecTx == InitTx /\ [][NextTx]_vars

\* ------------------------------------------------------- the field parsers
\* The characters of the raw values.
Alphabet == {"$", ",", ".", "%", "-", " ", "0", "1", "x"}

\* The raw values of a price field: None (the key is absent), a JSON object,
\* every str over the alphabet up to a length, and the values of the dataset's
\* documentation.
ParseInputs ==
    {None, Obj} \cup SeqsUpTo(Alphabet, MaxLen)
    \cup { <<"$", "6", "5", ".", "8", "6">>, <<"1", ",", "2", "3", "4">>,
           <<"0", ".", "2", "5", "9", "%">>, <<"$", "1", ",", "0", "0", "0", ".", "5", "0">> }

\* The record whose five price fields all carry the raw value.
PriceFields(value) ==
    [lastsale |-> value, netchange |-> value, pctchange |-> value, volume |-> value,
     marketCap |-> value]

InitParse ==
    /\ mode = "parse"
    /\ db = EmptyDb
    /\ status = NewStatus
    /\ clock = 0
    /\ callers = {}
    /\ pc = <<>>
    /\ loc = <<>>
    /\ ncalls = 0
    /\ ops = 0
    /\ call \in {[op |-> "input", value |-> value] : value \in ParseInputs}
    /\ lastGood = [s \in RepoSymbols |-> NoCall]
    /\ pool = 0

\* The parsing of _insert_price_data (lines 131-135) on the raw value.
ParseFieldsCall ==
    /\ call.op = "input"
    /\ call' = [op |-> "parse", value |-> call.value,
                row |-> PriceRow(1, PriceFields(call.value))]
    /\ ops' = ops + 1
    /\ UNCHANGED <<db, lastGood>>
    /\ UNCHANGED svcVars
    /\ UNCHANGED pool

NextParse == ParseFieldsCall

SpecParse == InitParse /\ [][NextParse]_vars

\* ---------------------------------------------------------------------------
\* The connection pool.  Each repository operation is taken statement by
\* statement: conn = None, get_connection(), the statements of the try block,
\* the except arm (insert_ticker only) and the finally arm.  Between its
\* repository operations the synchronization thread fetches the dataset.

MaxPoolOps == 3

PoolOps ==
    {"insert_ticker", "get_ticker_by_symbol", "get_ticker_count", "get_tickers_by_exchange"}

\* The locals of a repository operation: conn is "None" until get_connection
\* has returned; exc tells whether an exception is on its way out; held counts
\* the connections the thread has checked out and not returned.
PoolLocals(op, held) ==
    [op |-> op, conn |-> "None", exc |-> FALSE, result |-> "none", held |-> held]

\* A return_connection that does not give the connection back.
ReturnConnection_Keeps(n) == n

\* db_config.return_connection: pool.putconn(conn)
ReturnConnection(n) == n - 1

\* conn = None at the head of the operation.
PoolCall(t) ==
    /\ pc[t] = "idle"
    /\ ops < MaxPoolOps
    /\ ops' = ops + 1
    /\ \E op \in PoolOps : loc' = [loc EXCEPT ![t] = PoolLocals(op, loc[t].held)]
    /\ pc' = [pc EXCEPT ![t] = "getconn"]
    /\ UNCHANGED <<db, status, clock, callers, ncalls, call, lastGood, pool, mode>>

\* conn = self.db_config.get_connection(): pool.getconn() gives a connection,
\* or raises (pool not initialised, pool exhausted, server unreachable) and
\* conn stays None.
GetConnection(t) ==
    /\ pc[t] = "getconn"
    /\ \E raises \in BOOLEAN :
          IF raises
          THEN /\ loc' = [loc EXCEPT ![t].exc = TRUE]
               /\ pc' = [pc EXCEPT ![t] =
                     IF loc[t].op = "insert_ticker" THEN "except" ELSE "finally"]
               /\ pool' = pool
          ELSE /\ loc' = [loc EXCEPT ![t].conn = "conn", ![t].held = @ + 1]
               /\ pc' = [pc EXCEPT ![t] = "body"]
               /\ pool' = pool + 1
    /\ UNCHANGED <<db, status, clock, callers, ncalls, ops, call, lastGood, mode>>

\* The statements of the try block after get_connection: they run to the
\* return, or one of them raises.  Only insert_ticker has an except arm.
Body(t) ==
    /\ pc[t] = "body"
    /\ \E raises \in BOOLEAN :
          /\ loc' = [loc EXCEPT ![t].exc = raises]
          /\ pc' = [pc EXCEPT ![t] =
                IF raises /\ loc[t].op = "insert_ticker" THEN "except" ELSE "finally"]
    /\ UNCHANGED <<db, status, clock, callers, ncalls, ops, call, lastGood, pool, mode>>

\* insert_ticker's except arm: if conn: conn.rollback(); print(...); return
\* False.  rollback() raises on a lost connection and the print raises when
\* ticker_data is no dict: the exception then leaves the arm.
ExceptArm(t) ==
    /\ pc[t] = "except"
    /\ \E raises \in BOOLEAN : loc' = [loc EXCEPT ![t].exc = raises]
    /\ pc' = [pc EXCEPT ![t] = "finally"]
    /\ UNCHANGED <<db, status, clock, callers, ncalls, ops, call, lastGood, pool, mode>>

\* finally: if conn: self.db_config.return_connection(conn); then the operation
\* returns, or the exception goes on to the caller.
Finally(t) ==
    /\ pc[t] = "finally"
    /\ IF loc[t].conn # "None"
       THEN /\ pool' = ReturnConnection(pool)
            /\ loc' = [loc EXCEPT ![t].held = ReturnConnection(@),
                                  ![t].result = IF loc[t].exc THEN "raised" ELSE "returned"]
       ELSE /\ pool' = pool
            /\ loc' = [loc EXCEPT ![t].result = IF loc[t].exc THEN "raised" ELSE "returned"]
    /\ pc' = [pc EXCEPT ![t] = "idle"]
    /\ UNCHANGED <<db, status, clock, callers, ncalls, ops, call, lastGood, mode>>

\* sync_exchange's get_json_file, between two repository operations of the
\* thread: the request is sent ...
FetchBegins(t) ==
    /\ pc[t] = "idle"
    /\ pc' = [pc EXCEPT ![t] = "fetch"]
    /\ UNCHANGED <<db, status, clock, callers, loc, ncalls, ops, call, lastGood, pool, mode>>

\* ... and the answer comes, or an error or the timeout raises.
FetchEnds(t) ==
    /\ pc[t] = "fetch"
    /\ \E result \in {"returned", "raised"} :
          loc' = [loc EXCEPT ![t] =
                     [PoolLocals("get_json_file", loc[t].held) EXCEPT !.result = result]]
    /\ pc' = [pc EXCEPT ![t] = "idle"]
    /\ UNCHANGED <<db, status, clock, callers, ncalls, ops, call, lastGood, pool, mode>>

NextPool ==
    \/ \E t \in callers : PoolCall(t)
    \/ \E t \in callers : GetConnection(t)
    \/ \E t \in callers : Body(t)
    \/ \E t \in callers : ExceptArm(t)
    \/ \E t \in callers : Finally(t)
    \/ \E t \in callers : FetchBegins(t)
    \/ \E t \in callers : FetchEnds(t)

InitPool ==
    /\ callers = {1, 2}
    /\ mode = "pool"
    /\ db = EmptyDb
    /\ status = NewStatus
    /\ clock = 0
    /\ pc = [t \in {1, 2} |-> "idle"]
    /\ loc = [t \in {1, 2} |-> PoolLocals("none", 0)]
    /\ ncalls = 0
    /\ ops = 0
    /\ call = NoCall
    /\ lastGood = [s \in RepoSymbols |-> NoCall]
    /\ pool = 0

SpecPool == InitPool /\ [][NextPool]_vars

\* ---------------------------------------------------------------------------
\* The status object, statement by statement.  One thread runs synchronizations
\* and so executes start, update_progress, complete and set_error, each of them
\* a sequence of attribute assignments; another thread calls get_sync_status,
\* whose to_dict reads the attributes one after the other.  Nothing locks the
\* object.

MaxRuns == 2
MaxReads == 2

\* One attribute assignment: kind "set" stores value, "add" is +=, "now"
\* stores datetime.now().
Assign(field, kind, value) == [field |-> field, kind |-> kind, value |-> value]

\* SyncStatus.start, in the order of its statements
StartWrites ==
    << Assign("is_running", "set", TRUE),
       Assign("started_at", "now", 0),
       Assign("completed_at", "set", 0),
       Assign("total_processed", "set", 0),
       Assign("total_success", "set", 0),
       Assign("total_errors", "set", 0),
       Assign("current_exchange", "set", None),
       Assign("error_message", "set", None) >>

\* SyncStatus.complete
CompleteWrites ==
    << Assign("is_running", "set", FALSE),
       Assign("completed_at", "now", 0),
       Assign("current_exchange", "set", None) >>

\* SyncStatus.update_progress
UpdateProgressWrites(exchange, processed, success, errors) ==
    << Assign("current_exchange", "set", exchange),
       Assign("total_processed", "add", processed),
       Assign("total_success", "add", success),
       Assign("total_errors", "add", errors) >>

\* SyncStatus.set_error
SetErrorWrites(error) ==
    << Assign("is_running", "set", FALSE),
       Assign("error_message", "set", error),
       Assign("completed_at", "now", 0) >>

\* The status after one assignment.
ApplyWrite(st, w, now) ==
    IF w.kind = "add" THEN [st EXCEPT ![w.field] = @ + w.value]
    ELSE IF w.kind = "now" THEN [st EXCEPT ![w.field] = now]
    ELSE [st EXCEPT ![w.field] = w.value]

\* The status operations a synchronization may call next: start first, then
\* update_progress for an exchange, then complete; set_error instead when
\* sync_exchange raised.
NextStatusOps(last) ==
    IF last \in {"none", "complete", "set_error"} THEN {"start"}
    ELSE IF last = "start" THEN {"update_progress", "set_error"}
    ELSE {"complete", "set_error"}

WritesOf(op) ==
    IF op = "start" THEN StartWrites
    ELSE IF op = "update_progress" THEN UpdateProgressWrites(NASDAQ, 2, 1, 1)
    ELSE IF op = "complete" THEN CompleteWrites
    ELSE SetErrorWrites(ErrorMessage(NASDAQ))

\* The attribute reads of to_dict, in the order of its dict display; a
\* timestamp is read twice: `x.isoformat() if x else None`.
ToDictReads ==
    << [field |-> "is_running", test |-> FALSE],
       [field |-> "started_at", test |-> TRUE],
       [field |-> "started_at", test |-> FALSE],
       [field |-> "completed_at", test |-> TRUE],
       [field |-> "completed_at", test |-> FALSE],
       [field |-> "current_exchange", test |-> FALSE],
       [field |-> "total_processed", test |-> FALSE],
       [field |-> "total_success", test |-> FALSE],
       [field |-> "total_errors", test |-> FALSE],
       [field |-> "error_message", test |-> FALSE] >>

Timestamps == {"started_at", "completed_at"}

\* The thread that synchronizes: the operation in progress, its assignments
\* still to make, and the status as the last finished operation left it.
SyncThread(runs, last, writes, settled) ==
    [role |-> "sync", runs |-> runs, last |-> last, writes |-> writes, settled |-> settled]

\* The thread that polls: the reads made, the dict built so far, the values
\* the status had between operations since the call began, and how the call
\* ended.
PollThread(reads, k, dict, between, result) ==
    [role |-> "poll", reads |-> reads, k |-> k, dict |-> dict, between |-> between,
     result |-> result]

\* The synchronization enters a status operation.
StatusOpBegins(t) ==
    /\ loc[t].role = "sync"
    /\ pc[t] = "idle"
    /\ \E op \in NextStatusOps(loc[t].last) :
          /\ op = "start" => loc[t].runs < MaxRuns
          /\ loc' = [loc EXCEPT ![t].last = op, ![t].writes = WritesOf(op),
                                ![t].runs = IF op = "start" THEN @ + 1 ELSE @]
    /\ pc' = [pc EXCEPT ![t] = "assign"]
    /\ UNCHANGED <<db, status, clock, callers, ncalls, ops, call, lastGood, pool, mode>>

\* One assignment of the operation in progress.  With the last one the
\* operation returns, and a get_sync_status in progress on another thread has
\* lived through one more value of the status.
AssignField(t) ==
    /\ loc[t].role = "sync"
    /\ pc[t] = "assign"
    /\ LET w == Head(loc[t].writes)
           done == Len(loc[t].writes) = 1
       IN
       \E st \in {ApplyWrite(status, w, clock + 1)} :
          /\ status' = st
          /\ clock' = IF w.kind = "now" THEN clock + 1 ELSE clock
          /\ pc' = [pc EXCEPT ![t] = IF done THEN "idle" ELSE "assign"]
          /\ loc' = [u \in callers |->
                IF u = t
                THEN [loc[u] EXCEPT !.writes = Tail(@),
                                    !.settled = IF done THEN st ELSE @]
                ELSE IF loc[u].role = "poll" /\ pc[u] = "to_dict" /\ done
                THEN [loc[u] EXCEPT !.between = @ \cup {st}]
                ELSE loc[u]]
    /\ UNCHANGED <<db, callers, ncalls, ops, call, lastGood, pool, mode>>

\* get_sync_status is called: to_dict starts with an empty dict.
ToDictBegins(t) ==
    /\ loc[t].role = "poll"
    /\ pc[t] = "idle"
    /\ loc[t].reads < MaxReads
    /\ \E u \in callers :
          /\ loc[u].role = "sync"
          /\ loc' = [loc EXCEPT ![t] =
                PollThread(loc[t].reads + 1, 0, <<>>, {loc[u].settled}, "none")]
    /\ pc' = [pc EXCEPT ![t] = "to_dict"]
    /\ UNCHANGED <<db, status, clock, callers, ncalls, ops, call, lastGood, pool, mode>>

\* One attribute read of to_dict.  The test of a timestamp that is None skips
\* its second read; a timestamp that became None after its test makes
\* .isoformat() raise AttributeError, which leaves get_sync_status.  After the
\* last read the dict is returned.
ReadField(t) ==
    /\ loc[t].role = "poll"
    /\ pc[t] = "to_dict"
    /\ LET r == ToDictReads[loc[t].k + 1]
           v == status[r.field]
           last == loc[t].k + 1 = Len(ToDictReads)
       IN
       IF r.test
       THEN /\ loc' = [loc EXCEPT
                  ![t].k = IF v = 0 THEN @ + 2 ELSE @ + 1,
                  ![t].dict = IF v = 0 THEN (r.field :> None) @@ @ ELSE @]
            /\ pc' = pc
       ELSE IF r.field \in Timestamps /\ v = 0
       THEN /\ loc' = [loc EXCEPT ![t].result = "raised"]
            /\ pc' = [pc EXCEPT ![t] = "idle"]
       ELSE /\ loc' = [loc EXCEPT
                  ![t].k = @ + 1,
                  ![t].dict = (r.field :> IF r.field \in Timestamps THEN IsoFormat(v) ELSE v)
                              @@ @,
                  ![t].result = IF last THEN "returned" ELSE @]
            /\ pc' = [pc EXCEPT ![t] = IF last THEN "idle" ELSE "to_dict"]
    /\ UNCHANGED <<db, status, clock, callers, ncalls, ops, call, lastGood, pool, mode>>

NextTorn ==
    \/ \E t \in callers : StatusOpBegins(t)
    \/ \E t \in callers : AssignField(t)
    \/ \E t \in callers : ToDictBegins(t)
    \/ \E t \in callers : ReadField(t)

InitTorn ==
    /\ callers = {1, 2}
    /\ mode = "torn"
    /\ db = EmptyDb
    /\ status = NewStatus
    /\ clock = 0
    /\ pc = [t \in {1, 2} |-> "idle"]
    /\ loc = [t \in {1, 2} |->
                IF t = 1 THEN SyncThread(0, "none", <<>>, NewStatus)
                ELSE PollThread(0, 0, <<>>, {}, "none")]
    /\ ncalls = 0
    /\ ops = 0
    /\ call = NoCall
    /\ lastGood = [s \in RepoSymbols |-> NoCall]
    /\ pool = 0

SpecTorn == InitTorn /\ [][NextTorn]_vars

\* ------------------------------------------------- claims on the repository
IsInsert(c) == c.op = "insert_ticker"

\* The sector or industry name a ticker row refers to after a record was
\* upserted: the record's name, or NULL for a blank one.
DimensionOf(name) == IF ~Truthy(name) \/ Strip(name) = <<>> THEN None ELSE name

\* The code of the exchange a ticker row refers to after an upsert under code.
ExchangeOf(code) ==
    IF \E r \in ExchangesTable : r.code = Upper(code) THEN Upper(code) ELSE None

\* The row of the joined lookup carries the fields of the upserted record.
RowMatches(row, ticker_data, exchange_code) ==
    /\ row.found
    /\ row.symbol = ticker_data.symbol
    /\ row.name = ticker_data.name
    /\ row.country = ticker_data.country
    /\ row.ipo_year = OrNone(ticker_data.ipoyear)
    /\ row.nasdaq_url = ticker_data.url
    /\ row.exchange_code = ExchangeOf(exchange_code)
    /\ row.sector = DimensionOf(ticker_data.sector)
    /\ row.industry = DimensionOf(ticker_data.industry)

\* C4 (as claimed): storage holds at most one ticker row per symbol, and for a
\* symbol some insert_ticker call returned True for, exactly one row, carrying
\* the fields of the latest such call.
C4_UpsertIdempotent ==
    /\ \A r1, r2 \in db.tickers : r1.symbol = r2.symbol => r1 = r2
    /\ \A s \in RepoSymbols :
          IsInsert(lastGood[s]) =>
              /\ Cardinality({r \in db.tickers : r.symbol = s}) = 1
              /\ RowMatches(GetTickerBySymbol_Exact(db, s), lastGood[s].ticker_data,
                            lastGood[s].exchange_code)

\* C5 (as claimed): get_ticker_by_symbol(s) right after an insert_ticker that
\* returned True for a record with the non-empty symbol s returns a row, and
\* the row carries the record's fields.
C5_RoundTrip ==
    ( /\ call.op = "get_ticker_by_symbol"
      /\ IsInsert(call.after)
      /\ call.after.ret = "True"
      /\ call.after.ticker_data.symbol = call.symbol )
    => RowMatches(call.result, call.after.ticker_data, call.after.exchange_code)

\* C9: when insert_ticker returns False the committed rows are those before the
\* call: no sector, industry, ticker or price row of the failed record stays.
C9_FailureLeavesStorage ==
    (IsInsert(call) /\ call.ret = "False") => db = call.before

\* C9 witness: a call returned False after its transaction had created a sector
\* row and an industry row.
C9_Witness ==
    /\ IsInsert(call)
    /\ call.ret = "False"
    /\ call.sector_id # NullId
    /\ call.industry_id # NullId
    /\ ~\E r \in call.before.sectors : r.id = call.sector_id
    /\ ~\E r \in call.before.industries : r.id = call.industry_id

DimensionNames == { <<"S">>, <<"T">>, <<"I">> }

\* C10: no two sector rows and no two industry rows share a name; from every
\* reachable storage, resolving a non-blank name twice in a row gives the same
\* id both times and leaves one row of that name; and an insert_ticker call
\* that finds a row of its sector (industry) name resolves to that row's id
\* and adds no row of that name.
C10_GetOrCreateIdempotent ==
    /\ \A r1, r2 \in db.sectors : r1.name = r2.name => r1 = r2
    /\ \A r1, r2 \in db.industries : r1.name = r2.name => r1 = r2
    /\ \A n \in DimensionNames :
          LET a == GetOrCreateSector(Begin(db), n, NoFault)
              b == GetOrCreateSector(a, n, NoFault)
          IN /\ a.sector_id # NullId
             /\ b.sector_id = a.sector_id
             /\ b.db = a.db
             /\ Cardinality({r \in b.db.sectors : r.name = n}) = 1
    /\ \A n \in DimensionNames :
          LET a == GetOrCreateIndustry(Begin(db), n, NoFault)
              b == GetOrCreateIndustry(a, n, NoFault)
          IN /\ a.industry_id # NullId
             /\ b.industry_id = a.industry_id
             /\ b.db = a.db
             /\ Cardinality({r \in b.db.industries : r.name = n}) = 1
    /\ (IsInsert(call) /\ call.ticker_data.kind = "object") =>
          /\ \A r \in call.before.sectors :
                r.name = call.ticker_data.sector =>
                    /\ call.sector_id \in {r.id, NullId}
                    /\ {x \in db.sectors : x.name = r.name} = {r}
          /\ \A r \in call.before.industries :
                r.name = call.ticker_data.industry =>
                    /\ call.industry_id \in {r.id, NullId}
                    /\ {x \in db.industries : x.name = r.name} = {r}

\* C10 witness: an insert_ticker call that returned True resolved its sector
\* and its industry to rows that were there before the call.
C10_Witness ==
    /\ IsInsert(call)
    /\ call.ret = "True"
    /\ \E r \in call.before.sectors :
          r.name = call.ticker_data.sector /\ call.sector_id = r.id
    /\ \E r \in call.before.industries :
          r.name = call.ticker_data.industry /\ call.industry_id = r.id

\* ---------------------------------------------------- claims on the service
\* A caller is in a run body: past status.start() and not yet through
\* status.complete() or status.set_error().
InRunBody(t) == pc[t] \in {"fetch", "insert", "progress", "complete", "fail"}

\* The step is caller t's entry into a service call.
Enters(t) == ncalls' = ncalls + 1 /\ loc'[t].n = ncalls'

\* C1 (as claimed): at most one caller is in a run body at any time.
C1_SingleFlight ==
    \A t1, t2 \in callers : (InRunBody(t1) /\ InRunBody(t2)) => t1 = t2

\* C2: a call of sync_all_exchanges made while status.is_running is true raises
\* the Conflict error and changes no field of the status and no row.
C2_ConflictLeavesStatus ==
    [][\A t \in callers :
          (Enters(t) /\ loc'[t].op = "all" /\ status.is_running)
          => /\ loc'[t].result = "Conflict"
             /\ pc'[t] = "idle"
             /\ status' = status
             /\ db' = db]_vars

\* C2 witness: sync_all_exchanges was refused while a run that has already
\* counted records is running.
C2_Witness ==
    \E t \in callers :
        /\ loc[t].op = "all"
        /\ loc[t].result = "Conflict"
        /\ status.is_running
        /\ status.total_processed > 0

\* C3: sync_specific_exchange with a code whose upper-casing is none of NASDAQ,
\* NYSE, AMEX raises the Invalid-Argument error, goes on to no fetch and
\* changes no field of the status and no row, whether a run is running or not.
C3_InvalidExchangeRejected ==
    [][\A t \in callers :
          (Enters(t) /\ loc'[t].op = "one" /\ Upper(loc'[t].arg) \notin {NASDAQ, NYSE, AMEX})
          => /\ loc'[t].result = "InvalidArgument"
             /\ pc'[t] = "idle"
             /\ status' = status
             /\ db' = db]_vars

\* C3 witness: the lower-case code of no known exchange was refused while
\* another caller's run is running.
C3_Witness ==
    \E t, u \in callers :
        /\ loc[t].op = "one"
        /\ loc[t].arg = <<"l", "s", "e">>
        /\ loc[t].result = "InvalidArgument"
        /\ InRunBody(u)
        /\ status.is_running

\* The records of a dataset whose symbol is missing or malformed.
BadSymbolAt(data) == {i \in 1..Len(data) : data[i].symbol \in {None, Obj}}

\* The other records are valid, with distinct symbols not yet in storage.
OthersValidAndNew(data, before) ==
    /\ \A i \in 1..Len(data) : data[i].kind = "object"
    /\ \A i \in (1..Len(data)) \ BadSymbolAt(data) :
          /\ data[i].symbol # <<>>
          /\ data[i].symbol \notin before
          /\ \A j \in (1..Len(data)) \ BadSymbolAt(data) :
                data[i].symbol = data[j].symbol => i = j

C7_FetchFailureFailsRun ==
    [][\A t \in callers :
          (pc[t] = "fail" /\ loc[t].cause = "fetch" /\ loc[t].op = "all" /\ pc'[t] = "idle")
          => /\ ~status'.is_running
             /\ status'.completed_at # 0
             /\ status'.error_message # None
             /\ loc'[t].result = "Failed"
             /\ \A i \in 1..Len(loc[t].todo) : loc[t].todo[i] \notin loc[t].touched
             /\ loc[t].exchange = Head(loc[t].todo)
             /\ \A sym \in loc[t].committed : \E r \in db'.tickers : r.symbol = sym]_vars

\* C7 witness: a full sync has failed on the fetch of its second or third
\* exchange after committing rows of an earlier one.
C7_Witness ==
    \E t \in callers :
        /\ loc[t].op = "all"
        /\ loc[t].result = "Failed"
        /\ loc[t].cause = "fetch"
        /\ loc[t].committed # {}
        /\ loc[t].results # <<>>
        /\ ~status.is_running
        /\ status.error_message = ErrorMessage(loc[t].exchange)
        /\ \A sym \in loc[t].committed : \E r \in db.tickers : r.symbol = sym

\* C8 (as claimed): an insert_ticker call in which a storage operation failed
\* is counted by sync_exchange as one error, and the run goes on.
C8_FailureIsolated ==
    \A t \in callers : loc[t].last.failed => loc[t].last.counted = "error"

\* ------------------------------------- claims on concurrent insert_ticker
\* C11: in every interleaving of the statements of two concurrent insert_ticker
\* transactions, no two committed sector rows share a name and no two committed
\* industry rows share a name.
C11_NoDuplicateDimension ==
    /\ \A r1, r2 \in db.sectors : r1.name = r2.name => r1 = r2
    /\ \A r1, r2 \in db.industries : r1.name = r2.name => r1 = r2

\* C11 witness: both transactions looked for the same new sector name and
\* found no row; one committed its row and the INSERT of the other failed.
C11_Witness ==
    \E t, u \in callers :
        /\ t # u
        /\ loc[t].ret = "True"
        /\ loc[u].ret = "False"
        /\ loc[u].raced
        /\ loc[t].ticker_data.sector = loc[u].ticker_data.sector
        /\ loc[u].sector_id = NullId
        /\ \E r \in db.sectors : r.name = loc[t].ticker_data.sector /\ r.id = loc[t].sector_id

\* ------------------------------------------------- claims on the run status
RECURSIVE SumSeq(_)
SumSeq(q) == IF q = <<>> THEN 0 ELSE Head(q) + SumSeq(Tail(q))

\* The latest service call is t's, it was a run, and it has returned normally
\* by the time of the get_sync_status call kept in call.
CompletedAtCall(t) ==
    /\ call.op = "get_sync_status"
    /\ call.pcs[t] = "idle"
    /\ call.runs[t].n = call.ncalls
    /\ call.runs[t].result = "success"

\* C12: get_sync_status after a run that completed reports is_running false,
\* completed_at set, error_message null, and as totals the sums of the
\* per-exchange results of that run alone.
C12_StatusAfterCompletion ==
    \A t \in callers :
        CompletedAtCall(t)
        => LET d == call.result.dict
               res == call.runs[t].results
           IN /\ ~call.result.raised
              /\ d.is_running = FALSE
              /\ d.completed_at # None
              /\ d.error_message = None
              /\ d.total_processed = SumSeq([i \in 1..Len(res) |-> res[i].total])
              /\ d.total_success = SumSeq([i \in 1..Len(res) |-> res[i].success])
              /\ d.total_errors = SumSeq([i \in 1..Len(res) |-> res[i].errors])

\* C12 witness: the status is read after the second run, a run of one exchange
\* that counted a success and an error and found the rows of the first run in
\* storage.
C12_Witness ==
    \E t \in callers :
        /\ CompletedAtCall(t)
        /\ call.ncalls = 2
        /\ call.runs[t].op = "one"
        /\ call.runs[t].before # {}
        /\ call.result.dict.total_processed = 2
        /\ call.result.dict.total_success = 1
        /\ call.result.dict.total_errors = 1

\* C13: get_sync_status returns also when reading the ticker count raises:
\* total_tickers_in_db is then null (and the count otherwise), and every other
\* field is the field of the status object, as when the read succeeds.
C13_StatusSurvivesStorage ==
    call.op = "get_sync_status"
    => /\ ~call.result.raised
       /\ call.result.total_tickers_in_db =
             (IF call.fault = "none" THEN Num(call.tickers) ELSE None)
       /\ LET d == call.result.dict IN
          /\ d.is_running = call.status.is_running
          /\ d.started_at = IsoFormat(call.status.started_at)
          /\ d.completed_at = IsoFormat(call.status.completed_at)
          /\ d.current_exchange = call.status.current_exchange
          /\ d.total_processed = call.status.total_processed
          /\ d.total_success = call.status.total_success
          /\ d.total_errors = call.status.total_errors
          /\ d.error_message = call.status.error_message

\* C13 witness: the SELECT of the count raised while a run that has counted
\* records was running, with rows in storage.
C13_Witness ==
    /\ call.op = "get_sync_status"
    /\ call.fault = "count_select"
    /\ call.status.is_running
    /\ call.status.total_processed > 0
    /\ call.tickers > 0
    /\ call.result.total_tickers_in_db = None

\* ------------------------------------------------ claims on the parsers
IsNumber(v) == v # <<>> /\ Head(v) \in {"num", "float"}

HasChar(value, c) == \E i \in 1..Len(value) : value[i] = c

\* C14: _parse_price("$65.86") is 65.86, _parse_int("1,234") is 1234,
\* _parse_percentage("0.259%") is 0.259; each of the three gives null for the
\* empty string and for a string with a letter in it, and gives null or a
\* number, never an exception, for every value.
C14_ParsersAsStated ==
    call.op = "parse"
    => /\ call.value = <<"$", "6", "5", ".", "8", "6">> => call.row.last_sale = <<"float", 6586, 2>>
       /\ call.value = <<"1", ",", "2", "3", "4">> => call.row.volume = <<"num", 1234>>
       /\ call.value = <<"0", ".", "2", "5", "9", "%">> => call.row.pct_change = <<"float", 259, 3>>
       /\ \A v \in {call.row.last_sale, call.row.pct_change, call.row.volume} :
             /\ v = None \/ IsNumber(v)
             /\ (call.value = <<>> \/ call.value \in {None, Obj}) => v = None
             /\ (IsStr(call.value) /\ HasChar(call.value, "x")) => v = None

\* C14 witness: "0.259%" has been parsed, to null as a price and as an integer
\* and to a number as a percentage.
C14_Witness ==
    /\ call.op = "parse"
    /\ call.value = <<"0", ".", "2", "5", "9", "%">>
    /\ call.row.last_sale = None
    /\ call.row.volume = None
    /\ IsNumber(call.row.pct_change)

\* C15 (as claimed): for every str the value stored for net change and for
\* market cap is the value _parse_price gives for it.
C15_DecimalSameAsPrice ==
    (call.op = "parse" /\ IsStr(call.value))
    => /\ call.row.net_change = call.row.last_sale
       /\ call.row.market_cap = call.row.last_sale

\* C15 (amended): net change and market cap are parsed by one rule, which
\* strips the "," separators and no "$": for a str without "$" the value stored
\* is the value _parse_price gives, and for a str with a "$" it is null.
C15_DecimalStripsCommasOnly ==
    (call.op = "parse" /\ IsStr(call.value))
    => /\ call.row.net_change = call.row.market_cap
       /\ ~HasChar(call.value, "$") => call.row.net_change = call.row.last_sale
       /\ HasChar(call.value, "$") => call.row.net_change = None

\* C15 witness: "$1,000.50" has been parsed, to 1000.5 as last sale and to null
\* as net change and market cap.
C15_Witness ==
    /\ call.op = "parse"
    /\ call.value = <<"$", "1", ",", "0", "0", "0", ".", "5", "0">>
    /\ call.row.last_sale = <<"float", 10005, 1>>
    /\ call.row.net_change = None
    /\ call.row.market_cap = None

\* --------------------------------------------- claims on malformed fields
\* C16 (as claimed): an insert_ticker call for a record with a valid symbol
\* reports success and leaves the record's ticker row in storage, whatever
\* the other fields of the record hold.
C16_MalformedFieldsTolerated ==
    (IsInsert(call) /\ IsStr(call.ticker_data.symbol) /\ call.ticker_data.symbol # <<>>)
    => /\ call.ret = "True"
       /\ \E r \in db.tickers : r.symbol = call.ticker_data.symbol

\* ------------------------------------------------- claims on termination
\* C17: a run that status.start() has marked running is in the end marked not
\* running, whatever the fetches and the upserts do; and when the call that
\* started the run has returned or raised, is_running is false.
C17_RunTerminates ==
    /\ status.is_running ~> ~status.is_running
    /\ \A t \in {1} : (pc[t] \notin {"idle", "start"}) ~> (pc[t] = "idle")
    /\ [](\A t \in callers :
             (pc[t] = "idle" /\ loc[t].result \in {"success", "Failed"})
             => ~status.is_running)

\* C17 witness: a run has ended because an insert_ticker call raised in its
\* second or later exchange, and is_running is false.
C17_Witness ==
    \E t \in callers :
        /\ pc[t] = "idle"
        /\ loc[t].result = "Failed"
        /\ loc[t].cause = "insert"
        /\ loc[t].results # <<>>
        /\ status.started_at # 0
        /\ status.completed_at # 0
        /\ ~status.is_running

\* C18: in a full sync the exchanges are taken in the order NASDAQ, NYSE, AMEX,
\* one after the other: when a record of the k-th exchange has been handed to
\* insert_ticker, the results of the k-1 exchanges before it are in, each with
\* every record counted, and their counts are in the totals of the status.
C18_ExchangesInOrder ==
    \A t \in callers :
        (loc[t].op = "all" /\ loc[t].touched # {}) =>
            LET results == loc[t].results IN
            /\ \A j \in 1..Len(results) :
                  /\ results[j].exchange = <<NASDAQ, NYSE, AMEX>>[j]
                  /\ results[j].success + results[j].errors = results[j].total
            /\ \A k \in 1..3 :
                  <<NASDAQ, NYSE, AMEX>>[k] \in loc[t].touched => Len(results) >= k - 1
            /\ pc[t] = "insert" =>
                  loc[t].exchange = <<NASDAQ, NYSE, AMEX>>[Len(results) + 1]
            /\ status.total_processed = SumSeq([j \in 1..Len(results) |-> results[j].total])
            /\ status.total_success = SumSeq([j \in 1..Len(results) |-> results[j].success])
            /\ status.total_errors = SumSeq([j \in 1..Len(results) |-> results[j].errors])

\* C18 witness: a full sync is upserting a record of AMEX after NASDAQ and NYSE
\* each gave records.
C18_Witness ==
    \E t \in callers :
        /\ loc[t].op = "all"
        /\ pc[t] = "insert"
        /\ loc[t].exchange = AMEX
        /\ loc[t].i = 2
        /\ Len(loc[t].results) = 2
        /\ \A j \in 1..2 : loc[t].results[j].total > 0

\* C19: a successful insert_ticker leaves the price snapshots as they were and
\* appends exactly one, linked to the upserted ticker, when the record's
\* lastsale is non-empty, and none otherwise; no insert_ticker call, successful
\* or not, changes or removes a snapshot that was there.
C19_SnapshotsAppendOnly ==
    IsInsert(call) =>
        /\ Len(db.prices) >= Len(call.before.prices)
        /\ SubSeq(db.prices, 1, Len(call.before.prices)) = call.before.prices
        /\ call.ret = "True" =>
              IF Truthy(call.ticker_data.lastsale)
              THEN /\ Len(db.prices) = Len(call.before.prices) + 1
                   /\ db.prices[Len(db.prices)].ticker_id = call.ticker_id
                   /\ \E r \in db.tickers : r.id = call.ticker_id
              ELSE db.prices = call.before.prices

\* C20: a repository operation has at most one connection checked out; when
\* it has returned or raised, the connection is back in the pool; with no
\* operation in progress no connection is checked out; a thread that waits for
\* the remote dataset holds no connection.
C20_PoolBalanced ==
    /\ \A t \in callers : loc[t].held \in {0, 1}
    /\ \A t \in callers : pc[t] = "idle" => loc[t].held = 0
    /\ \A t \in callers : pc[t] = "fetch" => loc[t].held = 0
    /\ (\A t \in callers : pc[t] \in {"idle", "fetch"}) => pool = 0
    /\ pool <= Cardinality({t \in callers : pc[t] \in {"body", "except", "finally"}})

\* C20 witness: an insert_ticker that had a connection has raised out of its
\* except arm, then the thread started a fetch; no connection is checked out.
C20_Witness ==
    /\ ops = MaxPoolOps
    /\ pool = 0
    /\ \E t \in callers :
          /\ pc[t] = "fetch"
          /\ loc[t].op = "insert_ticker"
          /\ loc[t].conn # "None"
          /\ loc[t].result = "raised"
    /\ \E t \in callers :
          /\ pc[t] = "idle"
          /\ loc[t].op = "get_tickers_by_exchange"
          /\ loc[t].conn # "None"
          /\ loc[t].result = "returned"

\* C21: while a run is marked running and a caller is fetching or upserting
\* the records of an exchange, the status names that exchange as
\* current_exchange.
C21_CurrentExchangeIsProcessed ==
    \A t \in callers :
        (pc[t] \in {"fetch", "insert"} /\ status.is_running) =>
            status.current_exchange = Head(loc[t].todo)

\* C22: when insert_ticker has returned True for a record, the committed rows
\* hold a ticker row for the record's symbol, also when the INSERT of the price
\* snapshot failed inside the call.
C22_SuccessImpliesPersistence ==
    (IsInsert(call) /\ call.ret = "True") =>
        \E r \in db.tickers :
            /\ r.symbol = call.ticker_data.symbol
            /\ r.id = call.ticker_id

\* C23: between the operations of the status, total_processed is the sum of
\* total_success and total_errors and none of the three is negative; every
\* result of sync_exchange has total = success + errors; and as long as no
\* start() begins a new run, no counter goes down.
C23_CounterConservation ==
    /\ [](/\ status.total_processed = status.total_success + status.total_errors
          /\ status.total_success >= 0
          /\ status.total_errors >= 0
          /\ \A t \in callers :
                /\ \A j \in 1..Len(loc[t].results) :
                      /\ loc[t].results[j].total =
                            loc[t].results[j].success + loc[t].results[j].errors
                      /\ loc[t].results[j].success >= 0
                      /\ loc[t].results[j].errors >= 0
                /\ pc[t] = "progress" =>
                      SyncExchangeResult(loc[t]).total =
                          SyncExchangeResult(loc[t]).success + SyncExchangeResult(loc[t]).errors)
    /\ [][status'.started_at = status.started_at =>
             /\ status'.total_processed >= status.total_processed
             /\ status'.total_success >= status.total_success
             /\ status'.total_errors >= status.total_errors]_vars

\* C23 witness: a second run has counted successes and errors of two exchanges
\* after the first run had counted its own.
C23_Witness ==
    \E t \in callers :
        /\ loc[t].n = 2
        /\ loc[t].op = "all"
        /\ Len(loc[t].results) = 2
        /\ loc[t].results[1].errors > 0
        /\ loc[t].results[2].success > 0
        /\ status.started_at > 1
        /\ status.total_errors > 0
        /\ status.total_success > 0

\* C24: a dict that get_sync_status returns while another thread synchronizes
\* shows the status as it was between two status operations at some moment of
\* the call: in particular total_processed = total_success + total_errors, and
\* never is_running together with the error message of the run before.
C24_NoTornRead ==
    \A t \in callers :
        (loc[t].role = "poll" /\ pc[t] = "idle" /\ loc[t].result = "returned") =>
            /\ loc[t].dict \in {ToDict(st) : st \in loc[t].between}
            /\ loc[t].dict.total_processed =
                  loc[t].dict.total_success + loc[t].dict.total_errors
            /\ ~(loc[t].dict.is_running /\ loc[t].dict.error_message # None)

\* C25: insert_ticker returns True or False for every element of the fetched
\* list and never raises; an element that is no key-value object is counted by
\* sync_exchange as one error, and the run goes on.
C25_InsertTickerTotal ==
    \A t \in callers :
        /\ loc[t].last.counted \in {"none", "success", "error"}
        /\ loc[t].cause # "insert"
        /\ (loc[t].i > 1 /\ loc[t].ticker_data[loc[t].i - 1].kind # "object") =>
              /\ loc[t].last.counted = "error"
              /\ pc[t] # "fail"

====
